---- MODULE Spec2Model ----
(***************************************************************************)
(* The USSD session engine of NaloSolutions                                *)
(* (src/src/nunyakata/services/nalo_solutions.py): the in-memory session   *)
(* store _ussd_sessions, its three operations, and the request dispatcher  *)
(* handle_ussd_request with the menu and response builders it calls.       *)
(*                                                                         *)
(* Python values are modelled as follows.                                  *)
(*   str            a TLA+ string                                          *)
(*   dict           a function whose domain is the set of keys present     *)
(*   Optional[str]  a sequence of length 0 (None) or 1 (the string)        *)
(*   an exception   the field/variable raised, "none" when nothing raised  *)
(***************************************************************************)
EXTENDS Integers, Sequences, FiniteSets, TLC

VARIABLES
    _ussd_sessions,   \* self._ussd_sessions: sessionid -> [step, data]
    op,               \* name of the method whose call completed last
    sessionid,        \* its sessionid argument (store operations)
    data,             \* its data argument (update_ussd_session)
    session,          \* what get_ussd_session returned, as Optional
    session_data,     \* the inbound event given to handle_ussd_request
    response,         \* what handle_ussd_request returned
    raised,           \* the exception the last call let escape, or "none"
    existed,          \* history: the call's sessionid was in the store
                      \* when the call began
    written,          \* history: per stored session, the last value passed
                      \* to update_ussd_session for each key since creation
    cleared,          \* history: the entry the last clear_ussd_session
                      \* removed, while only get_ussd_session calls followed
    call,             \* a call of a stateless method: its name and arguments
    result,           \* what that call returned, as Optional
    threads,          \* per thread: the call it is in, the line it is at
                      \* and its local variables
    alone,            \* history: the store the calls begun so far give
                      \* when each runs alone, in the order they began
    raced,            \* history: the sessionids on which two calls were
                      \* in progress at the same time
    started           \* history: the number of calls threads have begun

vars == <<_ussd_sessions, op, sessionid, data, session, session_data,
          response, raised, existed, written, cleared, call, result,
          threads, alone, raced, started>>

----------------------------------------------------------------------------
(* Bounds of the model.                                                    *)

MaxStep == 2
MaxMsgLen == 2
MaxOptions == 2
MaxPhoneFill == 11
MaxAmountLen == 4
MaxCalls == 3
MaxRecipients == 2

(* Session ids used with the store, and the values written into sessions.  *)
SessionIds == {"A", "B"}
StepVals == 1..MaxStep
XVals == {"y", "z"}
DataVals == {"v"}

(* Characters an inbound msg is made of: selections, an out-of-range       *)
(* digit, a letter, and the characters int() treats specially.             *)
MsgChars == {"0", "1", "2", "3", "4", "9", "a", " ", "-", "+", "_"}

----------------------------------------------------------------------------
(* Python helpers.                                                         *)

None == <<>>
Some(v) == <<v>>
EmptyDict == <<>>
NoCall == [fn |-> "none"]

\* dict.get(key, default)
Get(d, key, default) == IF key \in DOMAIN d THEN d[key] ELSE default

\* sub in s
Contains(s, sub) ==
    \E i \in 1..(Len(s) - Len(sub) + 1) : SubSeq(s, i, i + Len(sub) - 1) = sub

\* the positions at which sub occurs in s
Find(s, sub) ==
    {i \in 1..(Len(s) - Len(sub) + 1) : SubSeq(s, i, i + Len(sub) - 1) = sub}

CharAt(s, i) == SubSeq(s, i, i)

IsDigit(c) == \E d \in 0..9 : CharAt("0123456789", d + 1) = c
DigitVal(c) == CHOOSE d \in 0..9 : CharAt("0123456789", d + 1) = c

\* str.strip() of whitespace
RECURSIVE Strip(_)
Strip(s) ==
    IF Len(s) = 0 THEN s
    ELSE IF CharAt(s, 1) = " " THEN Strip(SubSeq(s, 2, Len(s)))
    ELSE IF CharAt(s, Len(s)) = " " THEN Strip(SubSeq(s, 1, Len(s) - 1))
    ELSE s

\* the digit part of a decimal literal: digits, single underscores between
WellFormedDigits(b) ==
    /\ Len(b) > 0
    /\ IsDigit(CharAt(b, 1))
    /\ IsDigit(CharAt(b, Len(b)))
    /\ \A i \in 1..Len(b) : IsDigit(CharAt(b, i)) \/ CharAt(b, i) = "_"
    /\ \A i \in 1..(Len(b) - 1) : ~(CharAt(b, i) = "_" /\ CharAt(b, i + 1) = "_")

RECURSIVE DigitsValue(_, _)
DigitsValue(b, acc) ==
    IF Len(b) = 0 THEN acc
    ELSE IF CharAt(b, 1) = "_" THEN DigitsValue(SubSeq(b, 2, Len(b)), acc)
    ELSE DigitsValue(SubSeq(b, 2, Len(b)), 10 * acc + DigitVal(CharAt(b, 1)))

\* int(text) for a str: surrounding whitespace, an optional sign, digits;
\* ValueError for anything else
int(text) ==
    LET t == Strip(text)
        signed == Len(t) > 0 /\ CharAt(t, 1) \in {"+", "-"}
        body == IF signed THEN SubSeq(t, 2, Len(t)) ELSE t
        magnitude == DigitsValue(body, 0)
    IN  IF ~WellFormedDigits(body)
        THEN [raised |-> "ValueError", value |-> 0]
        ELSE [raised |-> "none",
              value |-> IF signed /\ CharAt(t, 1) = "-" THEN 0 - magnitude
                        ELSE magnitude]

----------------------------------------------------------------------------
(* The menu and response builders.                                         *)

\* the loop of create_ussd_menu: options[i..] appended to menu
RECURSIVE menu_options(_, _, _)
menu_options(menu, options, i) ==
    IF i > Len(options) THEN menu
    ELSE menu_options(menu \o ToString(i) \o ". " \o options[i] \o "\\n",
                      options, i + 1)

\* create_ussd_menu with the options counted from 0 (enumerate without start)
RECURSIVE menu_options_from_zero(_, _, _)
menu_options_from_zero(menu, options, i) ==
    IF i > Len(options) THEN menu
    ELSE menu_options_from_zero(
             menu \o ToString(i - 1) \o ". " \o options[i] \o "\\n", options, i + 1)

create_ussd_menu_from_zero(title, options, footer) ==
    LET menu == menu_options_from_zero(title \o "\\n", options, 1)
    IN  IF footer # None /\ footer[1] # ""
        THEN menu \o "\\n" \o footer[1]
        ELSE menu

create_ussd_menu(title, options, footer) ==
    LET menu == menu_options(title \o "\\n", options, 1)
    IN  IF footer # None /\ footer[1] # ""
        THEN menu \o "\\n" \o footer[1]
        ELSE menu

\* create_ussd_response testing 'sessionid is not None' instead of its truth
create_ussd_response_not_none(message, continue_session, sid) ==
    LET resp == ("response" :> (IF continue_session THEN "CON" ELSE "END"))
                    @@ ("message" :> message)
    IN  IF sid # None
        THEN resp @@ ("sessionid" :> sid[1])
        ELSE resp

create_ussd_response(message, continue_session, sid) ==
    LET resp == ("response" :> (IF continue_session THEN "CON" ELSE "END"))
                    @@ ("message" :> message)
    IN  IF sid # None /\ sid[1] # ""
        THEN resp @@ ("sessionid" :> sid[1])
        ELSE resp

----------------------------------------------------------------------------
(* The session store.  Each operator gives the store after the call (and   *)
(* the value returned, where there is one).                                *)

NewSession == [step |-> 0, data |-> EmptyDict]

\* get_ussd_session without the membership test: always stores a new session
get_ussd_session_always_new(sessions, sid) ==
    LET after == (sid :> NewSession) @@ sessions
    IN  [sessions |-> after, session |-> after[sid]]

get_ussd_session(sessions, sid) ==
    LET after == IF sid \notin DOMAIN sessions
                 THEN (sid :> NewSession) @@ sessions
                 ELSE sessions
    IN  [sessions |-> after, session |-> after[sid]]

\* the loop of update_ussd_session without the special case for "step":
\* every key goes into the data sub-object
RECURSIVE update_items_all_in_data(_, _, _)
update_items_all_in_data(sess, items, keys) ==
    IF keys = {} THEN sess
    ELSE LET key == CHOOSE k \in keys : TRUE
             value == items[key]
             next == [sess EXCEPT !.data = (key :> value) @@ @]
         IN  update_items_all_in_data(next, items, keys \ {key})

\* the loop of update_ussd_session over data.items()
RECURSIVE update_items(_, _, _)
update_items(sess, items, keys) ==
    IF keys = {} THEN sess
    ELSE LET key == CHOOSE k \in keys : TRUE
             value == items[key]
             next == IF key = "step"
                     THEN [sess EXCEPT !.step = value]
                     ELSE [sess EXCEPT !.data = (key :> value) @@ @]
         IN  update_items(next, items, keys \ {key})

\* update_ussd_session that creates the session when it is absent
update_ussd_session_create(sessions, sid, items) ==
    LET present == get_ussd_session(sessions, sid).sessions
    IN  [present EXCEPT ![sid] = update_items(@, items, DOMAIN items)]

update_ussd_session(sessions, sid, items) ==
    IF sid \in DOMAIN sessions
    THEN [sessions EXCEPT ![sid] = update_items(@, items, DOMAIN items)]
    ELSE sessions

\* clear_ussd_session that resets the step and keeps the entry with its data
clear_ussd_session_reset_step(sessions, sid) ==
    IF sid \in DOMAIN sessions
    THEN [sessions EXCEPT ![sid].step = 0]
    ELSE sessions

clear_ussd_session(sessions, sid) ==
    IF sid \in DOMAIN sessions
    THEN [s \in DOMAIN sessions \ {sid} |-> sessions[s]]
    ELSE sessions

----------------------------------------------------------------------------
(* The request dispatcher.                                                 *)

WelcomeTitle == "Welcome to Nalo Services"
WelcomeOptions == <<"Check Balance", "Send Money", "Buy Airtime", "Help">>

Returned(resp, sessions) ==
    [response |-> resp, sessions |-> sessions, raised |-> "none"]

\* menu_selection without the except clause: the ValueError of int() escapes
menu_selection_no_except(sid, msg, sessions) ==
    LET parsed == int(msg)
        selection == parsed.value
    IN  IF parsed.raised = "ValueError"
        THEN [response |-> EmptyDict, sessions |-> sessions, raised |-> "ValueError"]
        ELSE IF selection \in {1, 2, 3, 4}
        THEN IF selection = 1
             THEN Returned(create_ussd_response(
                      "Your balance is GHS 100.00", FALSE, Some(sid)), sessions)
             ELSE IF selection = 4
             THEN Returned(create_ussd_response(
                      "For help, call 123. Thank you!", FALSE, Some(sid)), sessions)
             ELSE Returned(create_ussd_response(
                      "Service not available. Thank you!", FALSE, Some(sid)), sessions)
        ELSE Returned(create_ussd_response(
                 "Invalid selection. Please try again.", FALSE, Some(sid)), sessions)

\* menu_selection whose help branch tests selection == 3 instead of 4
menu_selection_help_at_3(sid, msg, sessions) ==
    LET parsed == int(msg)
        selection == parsed.value
    IN  IF parsed.raised = "ValueError"
        THEN Returned(create_ussd_response(
                 "Invalid input. Please enter a number.", FALSE, Some(sid)),
                 sessions)
        ELSE IF selection \in {1, 2, 3, 4}
        THEN IF selection = 1
             THEN Returned(create_ussd_response(
                      "Your balance is GHS 100.00", FALSE, Some(sid)), sessions)
             ELSE IF selection = 3
             THEN Returned(create_ussd_response(
                      "For help, call 123. Thank you!", FALSE, Some(sid)), sessions)
             ELSE Returned(create_ussd_response(
                      "Service not available. Thank you!", FALSE, Some(sid)), sessions)
        ELSE Returned(create_ussd_response(
                 "Invalid selection. Please try again.", FALSE, Some(sid)), sessions)

\* menu_selection that keeps the session open after an invalid selection
menu_selection_retry(sid, msg, sessions) ==
    LET parsed == int(msg)
        selection == parsed.value
    IN  IF parsed.raised = "ValueError"
        THEN Returned(create_ussd_response(
                 "Invalid input. Please enter a number.", FALSE, Some(sid)),
                 sessions)
        ELSE IF selection \in {1, 2, 3, 4}
        THEN IF selection = 1
             THEN Returned(create_ussd_response(
                      "Your balance is GHS 100.00", FALSE, Some(sid)), sessions)
             ELSE IF selection = 4
             THEN Returned(create_ussd_response(
                      "For help, call 123. Thank you!", FALSE, Some(sid)), sessions)
             ELSE Returned(create_ussd_response(
                      "Service not available. Thank you!", FALSE, Some(sid)), sessions)
        ELSE Returned(create_ussd_response(
                 "Invalid selection. Please try again.", TRUE, Some(sid)), sessions)

\* the try block of handle_ussd_request with its except ValueError clause
menu_selection(sid, msg, sessions) ==
    LET parsed == int(msg)
        selection == parsed.value
    IN  IF parsed.raised = "ValueError"
        THEN Returned(create_ussd_response(
                 "Invalid input. Please enter a number.", FALSE, Some(sid)),
                 sessions)
        ELSE IF selection \in {1, 2, 3, 4}
        THEN IF selection = 1
             THEN Returned(create_ussd_response(
                      "Your balance is GHS 100.00", FALSE, Some(sid)), sessions)
             ELSE IF selection = 4
             THEN Returned(create_ussd_response(
                      "For help, call 123. Thank you!", FALSE, Some(sid)), sessions)
             ELSE Returned(create_ussd_response(
                      "Service not available. Thank you!", FALSE, Some(sid)), sessions)
        ELSE Returned(create_ussd_response(
                 "Invalid selection. Please try again.", FALSE, Some(sid)), sessions)

\* handle_ussd_request testing msgtype before sessionid
handle_ussd_request_timeout_first(sessions, event) ==
    LET sid == Get(event, "sessionid", "")
        msisdn == Get(event, "msisdn", "")
        msg == Get(event, "msg", "")
        msgtype == Get(event, "msgtype", TRUE)
    IN  IF ~msgtype
        THEN Returned(create_ussd_response("Session has ended. Thank you!", FALSE, None),
                      sessions)
        ELSE IF sid = ""
        THEN Returned(create_ussd_response("Session error occurred", FALSE, None),
                      sessions)
        ELSE IF msg = ""
        THEN Returned(create_ussd_response(
                 create_ussd_menu(WelcomeTitle, WelcomeOptions, None),
                 TRUE, Some(sid)), get_ussd_session(sessions, sid).sessions)
        ELSE menu_selection(sid, msg, get_ussd_session(sessions, sid).sessions)

\* handle_ussd_request rejecting only an absent sessionid, not an empty one
handle_ussd_request_sessionid_present(sessions, event) ==
    LET sid == Get(event, "sessionid", "")
        msisdn == Get(event, "msisdn", "")
        msg == Get(event, "msg", "")
        msgtype == Get(event, "msgtype", TRUE)
    IN  IF "sessionid" \notin DOMAIN event
        THEN Returned(create_ussd_response("Session error occurred", FALSE, None),
                      sessions)
        ELSE IF ~msgtype
        THEN Returned(create_ussd_response("Session has ended. Thank you!", FALSE, None),
                      sessions)
        ELSE IF msg = ""
        THEN Returned(create_ussd_response(
                 create_ussd_menu(WelcomeTitle, WelcomeOptions, None),
                 TRUE, Some(sid)), get_ussd_session(sessions, sid).sessions)
        ELSE menu_selection(sid, msg, get_ussd_session(sessions, sid).sessions)

\* handle_ussd_request testing the empty msg before msgtype
handle_ussd_request_start_first(sessions, event) ==
    LET sid == Get(event, "sessionid", "")
        msisdn == Get(event, "msisdn", "")
        msg == Get(event, "msg", "")
        msgtype == Get(event, "msgtype", TRUE)
    IN  IF sid = ""
        THEN Returned(create_ussd_response("Session error occurred", FALSE, None),
                      sessions)
        ELSE IF msg = ""
        THEN Returned(create_ussd_response(
                 create_ussd_menu(WelcomeTitle, WelcomeOptions, None),
                 TRUE, Some(sid)), get_ussd_session(sessions, sid).sessions)
        ELSE IF ~msgtype
        THEN Returned(create_ussd_response("Session has ended. Thank you!", FALSE, None),
                      sessions)
        ELSE menu_selection(sid, msg, get_ussd_session(sessions, sid).sessions)

\* handle_ussd_request that evicts the session when it answers END to a
\* menu selection
handle_ussd_request_evict_on_end(sessions, event) ==
    LET sid == Get(event, "sessionid", "")
        msisdn == Get(event, "msisdn", "")
        msg == Get(event, "msg", "")
        msgtype == Get(event, "msgtype", TRUE)
    IN  IF sid = ""
        THEN Returned(create_ussd_response("Session error occurred", FALSE, None),
                      sessions)
        ELSE IF ~msgtype
        THEN Returned(create_ussd_response("Session has ended. Thank you!", FALSE, None),
                      sessions)
        ELSE LET got == get_ussd_session(sessions, sid)
             IN  IF msg = ""
                 THEN Returned(create_ussd_response(
                          create_ussd_menu(WelcomeTitle, WelcomeOptions, None),
                          TRUE, Some(sid)), got.sessions)
                 ELSE [menu_selection(sid, msg, got.sessions)
                          EXCEPT !.sessions = clear_ussd_session(@, sid)]

\* handle_ussd_request that looks at the stored step: a session that has
\* moved past step 0 gets the END of a finished session
handle_ussd_request_by_step(sessions, event) ==
    LET sid == Get(event, "sessionid", "")
        msisdn == Get(event, "msisdn", "")
        msg == Get(event, "msg", "")
        msgtype == Get(event, "msgtype", TRUE)
    IN  IF sid = ""
        THEN Returned(create_ussd_response("Session error occurred", FALSE, None),
                      sessions)
        ELSE IF ~msgtype
        THEN Returned(create_ussd_response("Session has ended. Thank you!", FALSE, None),
                      sessions)
        ELSE LET got == get_ussd_session(sessions, sid)
             IN  IF got.session.step > 0
                 THEN Returned(create_ussd_response(
                          "Session has ended. Thank you!", FALSE, None), got.sessions)
                 ELSE IF msg = ""
                 THEN Returned(create_ussd_response(
                          create_ussd_menu(WelcomeTitle, WelcomeOptions, None),
                          TRUE, Some(sid)), got.sessions)
                 ELSE menu_selection(sid, msg, got.sessions)

handle_ussd_request(sessions, event) ==
    LET sid == Get(event, "sessionid", "")
        msisdn == Get(event, "msisdn", "")
        msg == Get(event, "msg", "")
        msgtype == Get(event, "msgtype", TRUE)
    IN  IF sid = ""
        THEN Returned(create_ussd_response("Session error occurred", FALSE, None),
                      sessions)
        ELSE IF ~msgtype
        THEN Returned(create_ussd_response("Session has ended. Thank you!", FALSE, None),
                      sessions)
        ELSE LET got == get_ussd_session(sessions, sid)
             IN  IF msg = ""
                 THEN Returned(create_ussd_response(
                          create_ussd_menu(WelcomeTitle, WelcomeOptions, None),
                          TRUE, Some(sid)), got.sessions)
                 ELSE menu_selection(sid, msg, got.sessions)

----------------------------------------------------------------------------
(* Inputs.                                                                 *)

\* a dict holding key with one of vals, or not holding key
OptField(key, vals) == {EmptyDict} \cup {key :> v : v \in vals}

\* all strings over chars of length at most n
RECURSIVE Strings(_, _)
Strings(chars, n) ==
    IF n = 0 THEN {""}
    ELSE LET shorter == Strings(chars, n - 1)
         IN  shorter \cup {s \o c : s \in shorter, c \in chars}

EventsOver(sids, msisdns, msgs, msgtypes) ==
    {a @@ b @@ c @@ d : a \in OptField("sessionid", sids),
                        b \in OptField("msisdn", msisdns),
                        c \in OptField("msg", msgs),
                        d \in OptField("msgtype", msgtypes)}

\* the data argument of update_ussd_session
UpdateData ==
    {a @@ b @@ c : a \in OptField("step", StepVals),
                   b \in OptField("x", XVals),
                   c \in OptField("data", DataVals)}

\* events sent to the engine while the store is being used
StoreEvents == EventsOver({"", "A", "B"}, {}, {"1"}, {FALSE})

\* events for the dispatcher alone
DispatchEvents ==
    EventsOver({"", "A", "B"}, {"233501234567"},
               Strings(MsgChars, MaxMsgLen), {TRUE, FALSE})

----------------------------------------------------------------------------
(* Threads calling into one NaloSolutions object.                          *)

Threads == {"t1", "t2"}

\* a thread that is in no call
Idle ==
    [pc |-> "idle", op |-> "none", sessionid |-> "", data |-> EmptyDict,
     keys |-> {}, attached |-> FALSE, raised |-> "none"]

\* the object is used by one caller at a time
NoThreads ==
    /\ threads = [t \in Threads |-> Idle]
    /\ alone = EmptyDict
    /\ raced = {}
    /\ started = 0

----------------------------------------------------------------------------
(* History: the writes made to each stored session.                        *)

Kept(sessions) ==
    [s \in DOMAIN sessions |-> IF s \in DOMAIN written THEN written[s] ELSE EmptyDict]

----------------------------------------------------------------------------
(* Actions: one per public method.                                         *)

Init ==
    /\ _ussd_sessions = EmptyDict
    /\ op = "__init__"
    /\ sessionid = None
    /\ data = EmptyDict
    /\ session = None
    /\ session_data = EmptyDict
    /\ response = EmptyDict
    /\ raised = "none"
    /\ existed = FALSE
    /\ written = EmptyDict
    /\ cleared = None
    /\ call = NoCall
    /\ result = None
    /\ NoThreads

GetUssdSession(sid) ==
    LET got == get_ussd_session(_ussd_sessions, sid)
    IN  /\ _ussd_sessions' = got.sessions
        /\ op' = "get_ussd_session"
        /\ sessionid' = Some(sid)
        /\ data' = EmptyDict
        /\ session' = Some(got.session)
        /\ session_data' = EmptyDict
        /\ response' = EmptyDict
        /\ raised' = "none"
        /\ existed' = (sid \in DOMAIN _ussd_sessions)
        /\ written' = Kept(got.sessions)
        /\ cleared' = cleared
        /\ UNCHANGED <<call, result, threads, alone, raced, started>>

UpdateUssdSession(sid, items) ==
    /\ _ussd_sessions' = update_ussd_session(_ussd_sessions, sid, items)
    /\ op' = "update_ussd_session"
    /\ sessionid' = Some(sid)
    /\ data' = items
    /\ session' = None
    /\ session_data' = EmptyDict
    /\ response' = EmptyDict
    /\ raised' = "none"
    /\ existed' = (sid \in DOMAIN _ussd_sessions)
    /\ written' = IF sid \in DOMAIN written
                  THEN [written EXCEPT ![sid] = items @@ @]
                  ELSE written
    /\ cleared' = None
    /\ UNCHANGED <<call, result, threads, alone, raced, started>>

ClearUssdSession(sid) ==
    /\ _ussd_sessions' = clear_ussd_session(_ussd_sessions, sid)
    /\ op' = "clear_ussd_session"
    /\ sessionid' = Some(sid)
    /\ data' = EmptyDict
    /\ session' = None
    /\ session_data' = EmptyDict
    /\ response' = EmptyDict
    /\ raised' = "none"
    /\ existed' = (sid \in DOMAIN _ussd_sessions)
    /\ written' = [s \in DOMAIN written \ {sid} |-> written[s]]
    /\ cleared' = IF sid \in DOMAIN _ussd_sessions
                  THEN Some([sessionid |-> sid, session |-> _ussd_sessions[sid]])
                  ELSE None
    /\ UNCHANGED <<call, result, threads, alone, raced, started>>

HandleUssdRequest(event) ==
    LET out == handle_ussd_request(_ussd_sessions, event)
    IN  /\ _ussd_sessions' = out.sessions
        /\ op' = "handle_ussd_request"
        /\ sessionid' = None
        /\ data' = EmptyDict
        /\ session' = None
        /\ session_data' = event
        /\ response' = out.response
        /\ raised' = out.raised
        /\ existed' = (Get(event, "sessionid", "") \in DOMAIN _ussd_sessions)
        /\ written' = Kept(out.sessions)
        /\ cleared' = None
        /\ UNCHANGED <<call, result, threads, alone, raced, started>>

Next ==
    \/ \E sid \in SessionIds : GetUssdSession(sid)
    \/ \E sid \in SessionIds, items \in UpdateData : UpdateUssdSession(sid, items)
    \/ \E sid \in SessionIds : ClearUssdSession(sid)
    \/ \E event \in StoreEvents : HandleUssdRequest(event)

Spec == Init /\ [][Next]_vars

----------------------------------------------------------------------------
(* The dispatcher on its own: one inbound event, drawn at the start        *)
(* together with a store left behind by earlier calls, is handled.         *)

UpdatedSession == [step |-> 1, data |-> ("x" :> "y")]
UpdatedWrites == ("step" :> 1) @@ ("x" :> "y")

\* stores (with their write histories) that earlier calls leave behind
DispatchStores ==
    { [sessions |-> EmptyDict, written |-> EmptyDict],
      [sessions |-> ("A" :> NewSession), written |-> ("A" :> EmptyDict)],
      [sessions |-> ("A" :> UpdatedSession), written |-> ("A" :> UpdatedWrites)],
      [sessions |-> ("A" :> UpdatedSession) @@ ("B" :> NewSession),
       written |-> ("A" :> UpdatedWrites) @@ ("B" :> EmptyDict)] }

InitDispatch ==
    /\ \E st \in DispatchStores :
          /\ _ussd_sessions = st.sessions
          /\ written = st.written
    /\ op = "__init__"
    /\ sessionid = None
    /\ data = EmptyDict
    /\ session = None
    /\ session_data \in DispatchEvents
    /\ response = EmptyDict
    /\ raised = "none"
    /\ existed = FALSE
    /\ cleared = None
    /\ call = NoCall
    /\ result = None
    /\ NoThreads

Dispatch == HandleUssdRequest(session_data)

SpecDispatch == InitDispatch /\ [][Dispatch]_vars

----------------------------------------------------------------------------
(* Properties of the dispatcher, stated over the event handled last and    *)
(* the response returned for it.                                           *)

Handled == op = "handle_ussd_request"

\* the fields of the event as the dispatcher reads them (absent = default)
EvSessionid == Get(session_data, "sessionid", "")
EvMsg == Get(session_data, "msg", "")
EvMsgtype == Get(session_data, "msgtype", TRUE)

\* msg parses as an integer / as an integer among the menu's options
MsgIsInteger == int(EvMsg).raised = "none"
MsgIsOption == MsgIsInteger /\ int(EvMsg).value \in {1, 2, 3, 4}

RespCode(code) == "response" \in DOMAIN response /\ response["response"] = code
RespMessage(text) == "message" \in DOMAIN response /\ response["message"] = text
RespMessageHas(text) ==
    "message" \in DOMAIN response /\ Contains(response["message"], text)
RespEchoes(sid) == "sessionid" \in DOMAIN response /\ response["sessionid"] = sid

\* the text is the welcome menu: a title with "Welcome", then the four
\* options numbered 1 to 4 in order
IsWelcomeMenu(text) ==
    \E t \in Find(text, "Welcome"), p1 \in Find(text, "1. Check Balance"),
       p2 \in Find(text, "2. Send Money"), p3 \in Find(text, "3. Buy Airtime"),
       p4 \in Find(text, "4. Help") :
        t < p1 /\ p1 < p2 /\ p2 < p3 /\ p3 < p4

\* C1: the branch is picked by first match in the order empty sessionid,
\* msgtype false, empty msg, msg an option of the menu, anything else; a
\* condition that holds decides the response whatever the later fields are.
C1_FirstMatchWins ==
    Handled =>
        IF EvSessionid = "" THEN RespMessage("Session error occurred")
        ELSE IF ~EvMsgtype THEN RespMessage("Session has ended. Thank you!")
        ELSE IF EvMsg = "" THEN RespCode("CON")
        ELSE IF MsgIsOption
        THEN \/ RespMessage("Your balance is GHS 100.00")
             \/ RespMessage("For help, call 123. Thank you!")
             \/ RespMessage("Service not available. Thank you!")
        ELSE \/ RespMessage("Invalid selection. Please try again.")
             \/ RespMessage("Invalid input. Please enter a number.")

\* an empty sessionid together with msgtype false and a valid selection
C1_Witness ==
    /\ Handled
    /\ EvSessionid = "" /\ ~EvMsgtype /\ EvMsg = "1"
    /\ RespMessage("Session error occurred")

\* C2: for every event, fields absent included, and every store, the
\* dispatcher raises nothing and returns a response with a 'response' field
\* of CON or END and a 'message' field.
C2_Total ==
    Handled =>
        /\ raised = "none"
        /\ RespCode("CON") \/ RespCode("END")
        /\ "message" \in DOMAIN response

\* a msg int() rejects, in an event without msisdn and msgtype, on a store
\* that holds sessions
C2_Witness ==
    /\ Handled
    /\ DOMAIN session_data = {"sessionid", "msg"}
    /\ ~MsgIsInteger /\ EvMsg # ""
    /\ Cardinality(DOMAIN _ussd_sessions) = 2
    /\ RespCode("END")

\* C3: the response is CON exactly for a Start event (sessionid non-empty,
\* msgtype true, msg empty); it then carries the welcome menu and the
\* event's sessionid.  Every other event yields END.
C3_ConIffStart ==
    Handled =>
        LET start == EvSessionid # "" /\ EvMsgtype /\ EvMsg = ""
        IN  /\ RespCode("CON") <=> start
            /\ ~start => RespCode("END")
            /\ start => /\ "message" \in DOMAIN response
                        /\ IsWelcomeMenu(response["message"])
                        /\ RespEchoes(EvSessionid)

C3_Witness ==
    /\ Handled
    /\ EvSessionid = "B" /\ EvMsgtype /\ EvMsg = ""
    /\ RespCode("CON") /\ RespEchoes("B")

\* C4: for a non-empty sessionid, msgtype true and msg an integer in
\* {1,2,3,4}, the response is END, echoes the sessionid, and its message is
\* the balance for 1, the help text for 4, "Service not available" for 2, 3.
C4_MenuSelection ==
    (Handled /\ EvSessionid # "" /\ EvMsgtype /\ MsgIsOption) =>
        LET selection == int(EvMsg).value
        IN  /\ RespCode("END")
            /\ RespEchoes(EvSessionid)
            /\ selection = 1 => RespMessage("Your balance is GHS 100.00")
            /\ selection = 4 => RespMessage("For help, call 123. Thank you!")
            /\ selection \in {2, 3} =>
                   RespMessage("Service not available. Thank you!")

\* the selection 4 written with a sign
C4_Witness ==
    /\ Handled
    /\ EvSessionid = "A" /\ EvMsgtype /\ EvMsg = "+4"
    /\ RespMessage("For help, call 123. Thank you!")

\* C5: for a non-empty sessionid, msgtype true and a non-empty msg that is
\* no option of the menu, the response is END, never CON; an integer
\* outside {1,2,3,4} gives "Invalid selection", a msg that is no integer
\* gives "Invalid input".
C5_InvalidSelection ==
    (Handled /\ EvSessionid # "" /\ EvMsgtype /\ EvMsg # "" /\ ~MsgIsOption) =>
        /\ RespCode("END")
        /\ MsgIsInteger => RespMessageHas("Invalid selection")
        /\ ~MsgIsInteger => RespMessageHas("Invalid input")

C5_Witness ==
    /\ Handled
    /\ EvSessionid = "A" /\ EvMsgtype /\ EvMsg = "9"
    /\ RespCode("END") /\ RespMessageHas("Invalid selection")

\* C6: for an empty or absent sessionid the response is END with a message
\* containing "error", whatever msisdn, msg and msgtype are, and it has no
\* sessionid field.
C6_EmptySessionid ==
    (Handled /\ ("sessionid" \notin DOMAIN session_data
                    \/ session_data["sessionid"] = "")) =>
        /\ RespCode("END")
        /\ RespMessageHas("error")
        /\ "sessionid" \notin DOMAIN response

\* an empty (not absent) sessionid in an otherwise valid selection event
C6_Witness ==
    /\ Handled
    /\ "sessionid" \in DOMAIN session_data /\ session_data["sessionid"] = ""
    /\ "msisdn" \in DOMAIN session_data
    /\ EvMsgtype /\ EvMsg = "1"
    /\ RespCode("END")

\* C7: for a non-empty sessionid and msgtype false the response is END with
\* the closing message, whatever msg is.
C7_GatewayTerminated ==
    (Handled /\ EvSessionid # "" /\ ~EvMsgtype) =>
        /\ RespCode("END")
        /\ RespMessage("Session has ended. Thank you!")

\* msgtype false with an empty msg, which alone would start a session
C7_Witness ==
    /\ Handled
    /\ EvSessionid = "A" /\ ~EvMsgtype /\ EvMsg = ""
    /\ RespMessage("Session has ended. Thank you!")

----------------------------------------------------------------------------
(* Properties of the session store.  A step's unprimed variables are the   *)
(* state before the call, its primed variables the completed call.         *)

CalledWith(name, sid) == op = name /\ sessionid = Some(sid)

\* the value last written for key, or default when none was written
LastWritten(sid, key, default) == Get(written[sid], key, default)

\* C8: get_ussd_session(s) stores and returns a new {step: 0, data: {}}
\* when s is not in the store; when s is in the store it returns the stored
\* session as it is and leaves the store unchanged.  It raises nothing.
C8_GetOrCreate ==
    [][\A s \in SessionIds :
          CalledWith("get_ussd_session", s)' =>
              /\ raised' = "none"
              /\ session' # None
              /\ s \notin DOMAIN _ussd_sessions =>
                     /\ session' = Some([step |-> 0, data |-> EmptyDict])
                     /\ DOMAIN _ussd_sessions' = DOMAIN _ussd_sessions \cup {s}
                     /\ _ussd_sessions'[s] = [step |-> 0, data |-> EmptyDict]
                     /\ \A o \in DOMAIN _ussd_sessions :
                            _ussd_sessions'[o] = _ussd_sessions[o]
              /\ s \in DOMAIN _ussd_sessions =>
                     /\ session' = Some(_ussd_sessions[s])
                     /\ _ussd_sessions' = _ussd_sessions]_vars

\* get_ussd_session returned a session that had been updated before
C8_Witness ==
    /\ CalledWith("get_ussd_session", "A")
    /\ existed
    /\ session = Some([step |-> 2, data |-> ("x" :> "z")])
    /\ "B" \in DOMAIN _ussd_sessions

\* C9: update_ussd_session(s, fields) on an existing session overwrites the
\* top-level step with fields["step"], writes every other key, "data"
\* included, into the data mapping, and keeps the step and the data keys
\* that fields does not name; so at any time the step is the last step
\* written (0 if none) and data holds the last value written for each key.
C9_Update ==
    /\ [][\A s \in SessionIds :
            (CalledWith("update_ussd_session", s)' /\ s \in DOMAIN _ussd_sessions) =>
                LET before == _ussd_sessions[s]
                    after == _ussd_sessions'[s]
                    others == DOMAIN data' \ {"step"}
                IN  /\ s \in DOMAIN _ussd_sessions'
                    /\ DOMAIN after = {"step", "data"}
                    /\ after.step = IF "step" \in DOMAIN data' THEN data'["step"]
                                    ELSE before.step
                    /\ DOMAIN after.data = DOMAIN before.data \cup others
                    /\ \A k \in others : after.data[k] = data'[k]
                    /\ \A k \in DOMAIN before.data \ others :
                           after.data[k] = before.data[k]]_vars
    /\ [](\A s \in DOMAIN _ussd_sessions :
            /\ _ussd_sessions[s].step = LastWritten(s, "step", 0)
            /\ DOMAIN _ussd_sessions[s].data = DOMAIN written[s] \ {"step"}
            /\ \A k \in DOMAIN _ussd_sessions[s].data :
                   _ussd_sessions[s].data[k] = written[s][k])

\* an update naming only "data" on a session whose step and x were written
\* by earlier updates
C9_Witness ==
    /\ CalledWith("update_ussd_session", "A")
    /\ existed
    /\ data = ("data" :> "v")
    /\ _ussd_sessions["A"] = [step |-> 2, data |-> ("x" :> "z") @@ ("data" :> "v")]

\* C10: update_ussd_session and clear_ussd_session on a sessionid that is
\* not in the store raise nothing, create no session and leave the store
\* unchanged; a clear repeated for the same sessionid changes nothing.
C10_AbsentNoOp ==
    [][\A s \in SessionIds :
          /\ ((CalledWith("update_ussd_session", s)' \/ CalledWith("clear_ussd_session", s)')
                 /\ s \notin DOMAIN _ussd_sessions) =>
                 /\ raised' = "none"
                 /\ _ussd_sessions' = _ussd_sessions
          /\ (CalledWith("clear_ussd_session", s) /\ CalledWith("clear_ussd_session", s)') =>
                 _ussd_sessions' = _ussd_sessions]_vars

\* an update with fields for a sessionid that is absent, beside a session
\* that is stored
C10_Witness ==
    /\ CalledWith("update_ussd_session", "A")
    /\ ~existed
    /\ data = ("step" :> 1) @@ ("x" :> "y")
    /\ DOMAIN _ussd_sessions = {"B"}

\* C11: whatever get_ussd_session and update_ussd_session calls were made
\* for s, a get_ussd_session(s) after clear_ussd_session(s) returns and
\* stores a new {step: 0, data: {}}: nothing written before the clear is
\* visible.
C11_ClearThenGetIsFresh ==
    \A s \in SessionIds :
        (CalledWith("get_ussd_session", s) /\ cleared # None
            /\ cleared[1].sessionid = s) =>
            /\ session = Some([step |-> 0, data |-> EmptyDict])
            /\ s \in DOMAIN _ussd_sessions
            /\ _ussd_sessions[s] = [step |-> 0, data |-> EmptyDict]

\* the get follows the clear of a session whose step, x and data were set
C11_Witness ==
    /\ CalledWith("get_ussd_session", "A")
    /\ cleared = Some([sessionid |-> "A",
                       session |-> [step |-> 2,
                                    data |-> ("x" :> "z") @@ ("data" :> "v")]])
    /\ session = Some([step |-> 0, data |-> EmptyDict])

----------------------------------------------------------------------------
(* The validators.                                                         *)

\* "".join(filter(str.isdigit, text))
RECURSIVE filter_isdigit(_)
filter_isdigit(text) ==
    IF Len(text) = 0 THEN ""
    ELSE (IF IsDigit(CharAt(text, 1)) THEN CharAt(text, 1) ELSE "")
             \o filter_isdigit(SubSeq(text, 2, Len(text)))

\* text.startswith(prefix)
startswith(text, prefix) ==
    Len(text) >= Len(prefix) /\ SubSeq(text, 1, Len(prefix)) = prefix

\* validate_phone_number testing the text as given, without removing the
\* characters that are no digits
validate_phone_number_unfiltered(phone_number) ==
    IF phone_number = "" THEN FALSE
    ELSE LET digits == phone_number
         IN  IF Len(digits) = 10 THEN startswith(digits, "0")
             ELSE IF Len(digits) = 12 THEN startswith(digits, "233")
             ELSE FALSE

validate_phone_number(phone_number) ==
    IF phone_number = "" THEN FALSE
    ELSE LET digits == filter_isdigit(phone_number)
         IN  IF Len(digits) = 10 THEN startswith(digits, "0")
             ELSE IF Len(digits) = 12 THEN startswith(digits, "233")
             ELSE FALSE

\* the position of the first c in text, 0 when there is none
FirstIndex(text, c) ==
    IF \E i \in 1..Len(text) : CharAt(text, i) = c
    THEN CHOOSE i \in 1..Len(text) :
             /\ CharAt(text, i) = c
             /\ \A j \in 1..(i - 1) : CharAt(text, j) # c
    ELSE 0

\* str.lower() on the letters float() looks at
RECURSIVE lower(_)
lower(text) ==
    IF Len(text) = 0 THEN ""
    ELSE LET c == CharAt(text, 1)
             i == FirstIndex("AEFINTY", c)
         IN  (IF i > 0 THEN CharAt("aefinty", i) ELSE c)
                 \o lower(SubSeq(text, 2, Len(text)))

\* the part of a float literal before the exponent: digits with at most one
\* point, a digit on at least one side of it
WellFormedMantissa(m) ==
    LET dot == FirstIndex(m, ".")
        whole == SubSeq(m, 1, dot - 1)
        fraction == SubSeq(m, dot + 1, Len(m))
    IN  IF dot = 0 THEN WellFormedDigits(m)
        ELSE /\ whole = "" \/ WellFormedDigits(whole)
             /\ fraction = "" \/ WellFormedDigits(fraction)
             /\ ~(whole = "" /\ fraction = "")

WellFormedExponent(x) ==
    LET signed == Len(x) > 0 /\ CharAt(x, 1) \in {"+", "-"}
    IN  WellFormedDigits(IF signed THEN SubSeq(x, 2, Len(x)) ELSE x)

\* float(text) for a str: what kind of value it is, its sign and whether it
\* is zero; ValueError for a text that is no float literal
float(text) ==
    LET t == Strip(text)
        signed == Len(t) > 0 /\ CharAt(t, 1) \in {"+", "-"}
        negative == signed /\ CharAt(t, 1) = "-"
        body == lower(IF signed THEN SubSeq(t, 2, Len(t)) ELSE t)
        e == FirstIndex(body, "e")
        mantissa == IF e = 0 THEN body ELSE SubSeq(body, 1, e - 1)
        literal == /\ WellFormedMantissa(mantissa)
                   /\ e = 0 \/ WellFormedExponent(SubSeq(body, e + 1, Len(body)))
        value(kind, zero) ==
            [raised |-> "none", kind |-> kind, negative |-> negative, zero |-> zero]
    IN  IF body \in {"inf", "infinity"} THEN value("inf", FALSE)
        ELSE IF body = "nan" THEN value("nan", FALSE)
        ELSE IF literal
        THEN value("finite", \A i \in 1..Len(mantissa) :
                                 CharAt(mantissa, i) \in {"0", ".", "_"})
        ELSE [raised |-> "ValueError", kind |-> "none", negative |-> FALSE,
              zero |-> FALSE]

\* amount <= 0 for the float amount
AtMostZero(amount) ==
    \/ amount.kind = "finite" /\ (amount.zero \/ amount.negative)
    \/ amount.kind = "inf" /\ amount.negative

\* amount_str.split(".")[1]
DecimalPart(amount_str) ==
    LET rest == SubSeq(amount_str, FirstIndex(amount_str, ".") + 1, Len(amount_str))
        next == FirstIndex(rest, ".")
    IN  IF next = 0 THEN rest ELSE SubSeq(rest, 1, next - 1)

validate_amount(amount_str) ==
    LET amount == float(amount_str)
    IN  IF amount.raised = "ValueError" THEN FALSE
        ELSE IF AtMostZero(amount) THEN FALSE
        ELSE IF FirstIndex(amount_str, ".") > 0
        THEN Len(DecimalPart(amount_str)) <= 2
        ELSE TRUE

----------------------------------------------------------------------------
(* The HTTP services.  What the network does with a request is an input:   *)
(* an exception raised by session.request, or a response with its status   *)
(* code, reason and body (None: a body that is not JSON, for which         *)
(* response.json() raises an exception that is a ValueError and, from      *)
(* requests 2.27 on, a RequestException as well).                          *)

\* the attributes __init__ sets that the HTTP services read
payment_public_key == "pk"
payment_private_key == "sk"
payment_base_url == "https://sandbox.nalosolutions.com/payment"
sms_base_url == "https://api.nalosolutions.com/sms"
email_base_url == "https://api.nalosolutions.com/sendemail"
sms_sender_id == "DEFAULT"

\* the result of a service call: the exception it raised or the value it
\* returned, and the requests it handed to session.request
Raise(exception) == [raised |-> exception, returned |-> None, requests |-> <<>>]

ErrorDict(message) == ("status" :> "error") @@ ("message" :> message)

_make_request(outcome) ==
    IF outcome.kind = "response"
    THEN IF outcome.status_code < 400
         THEN IF outcome.body # None
              THEN outcome.body[1]
              ELSE IF outcome.decode_error = "RequestException"
              THEN ErrorDict("Request failed: " \o outcome.text)
              ELSE ErrorDict("Unexpected error: " \o outcome.text)
         ELSE IF outcome.body # None
         THEN outcome.body[1]
         ELSE ErrorDict("Request failed: " \o ToString(outcome.status_code)
                            \o " " \o outcome.reason)
    ELSE IF outcome.kind = "Timeout" THEN ErrorDict("Request timeout")
    ELSE IF outcome.kind = "ConnectionError"
    THEN ErrorDict("Network connection error")
    ELSE IF outcome.kind = "RequestException"
    THEN ErrorDict("Request failed: " \o outcome.text)
    ELSE ErrorDict("Unexpected error: " \o outcome.text)

\* the request is handed to session.request and _make_request's value returned
Send(request, outcome) ==
    [raised |-> "none", returned |-> Some(_make_request(outcome)),
     requests |-> <<request>>]

\* a credential or argument that is None or empty is falsy
Truthy(optional) == optional # None /\ optional[1] # ""

\* the secret hash, kept as the text that is hashed
md5(text) == <<"md5", text>>

make_payment(amount, phone_number, reference, outcome) ==
    IF amount = None \/ amount[1] <= 0
    THEN Raise("ValueError")
    ELSE IF phone_number = "" THEN Raise("ValueError")
    ELSE IF reference = "" THEN Raise("ValueError")
    ELSE LET hash_string == ToString(amount[1]) \o phone_number \o reference
                                \o payment_private_key
             payment_data == ("public_key" :> payment_public_key)
                                 @@ ("amount" :> amount[1])
                                 @@ ("phone_number" :> phone_number)
                                 @@ ("reference" :> reference)
                                 @@ ("secret_hash" :> md5(hash_string))
         IN  Send([method |-> "POST",
                   url |-> payment_base_url \o "/request-payment",
                   as |-> "json", body |-> payment_data], outcome)

\* authentication fields holding the auth key next to user name and password
AuthFieldsAll(creds, userkey) ==
    ("authkey" :> creds.auth_key) @@ (userkey :> creds.username)
        @@ ("password" :> creds.password)

\* the authentication fields of an SMS or email payload
AuthFields(creds, userkey) ==
    IF Truthy(creds.auth_key)
    THEN ("authkey" :> creds.auth_key)
    ELSE (userkey :> creds.username) @@ ("password" :> creds.password)

\* the credentials check passing whatever is configured
AuthenticatedAlways(creds) == TRUE

Authenticated(creds) ==
    (Truthy(creds.username) /\ Truthy(creds.password)) \/ Truthy(creds.auth_key)

send_sms(phone_number, message, method, sender_id, creds, outcome) ==
    IF phone_number = "" THEN Raise("ValueError")
    ELSE IF message = "" THEN Raise("ValueError")
    ELSE IF method \notin {"GET", "POST"} THEN Raise("ValueError")
    ELSE IF Len(message) > 1000 THEN Raise("ValueError")
    ELSE IF ~Authenticated(creds) THEN Raise("ValueError")
    ELSE LET sms_data == ("phone" :> phone_number) @@ ("msg" :> message)
                             @@ ("sendid" :> (IF Truthy(sender_id) THEN sender_id[1]
                                              ELSE sms_sender_id))
                             @@ AuthFields(creds, "userid")
         IN  IF method = "GET"
             THEN Send([method |-> "GET", url |-> sms_base_url \o "/?",
                        as |-> "query", body |-> sms_data], outcome)
             ELSE Send([method |-> "POST", url |-> sms_base_url \o "/",
                        as |-> "data", body |-> sms_data], outcome)

\* the number of times c occurs in text
RECURSIVE Count(_, _)
Count(text, c) ==
    IF Len(text) = 0 THEN 0
    ELSE (IF CharAt(text, 1) = c THEN 1 ELSE 0) + Count(SubSeq(text, 2, Len(text)), c)

validate_email(email) ==
    IF email = "" \/ Count(email, "@") = 0 THEN FALSE
    ELSE IF Count(email, " ") > 0 \/ Strip(email) = "" THEN FALSE
    ELSE IF Count(email, "@") # 1 THEN FALSE
    ELSE LET at == FirstIndex(email, "@")
             local == SubSeq(email, 1, at - 1)
             domain == SubSeq(email, at + 1, Len(email))
         IN  IF Strip(local) = "" \/ Strip(domain) = "" THEN FALSE
             ELSE Count(domain, ".") > 0

send_email(to_email, subject, message, send_format, creds, outcome) ==
    IF to_email = "" THEN Raise("ValueError")
    ELSE IF subject = "" THEN Raise("ValueError")
    ELSE IF message = "" THEN Raise("ValueError")
    ELSE IF ~validate_email(to_email) THEN Raise("ValueError")
    ELSE IF ~Authenticated(creds) THEN Raise("ValueError")
    ELSE LET email_data == ("to" :> to_email) @@ ("subject" :> subject)
                               @@ ("message" :> message)
                               @@ AuthFields(creds, "username")
         IN  IF send_format = "json"
             THEN Send([method |-> "POST", url |-> email_base_url \o "/",
                        as |-> "json", body |-> email_data], outcome)
             ELSE Send([method |-> "POST", url |-> email_base_url \o "/",
                        as |-> "multipart", body |-> email_data], outcome)

\* send_html_email going through the checks of send_email
send_html_email_checked(to_email, subject, html_content, creds, outcome) ==
    LET sent == send_email(to_email, subject, html_content, "json", creds, outcome)
    IN  IF sent.raised # "none" THEN sent
        ELSE [sent EXCEPT !.requests =
                 <<[sent.requests[1] EXCEPT !.body = ("content_type" :> "html") @@ @]>>]

send_html_email(to_email, subject, html_content, creds, outcome) ==
    LET email_data == ("to" :> to_email) @@ ("subject" :> subject)
                          @@ ("message" :> html_content)
                          @@ ("content_type" :> "html")
                          @@ AuthFields(creds, "username")
    IN  Send([method |-> "POST", url |-> email_base_url \o "/",
              as |-> "json", body |-> email_data], outcome)

\* r.get("status") == "success"
IsSuccess(r) == "status" \in DOMAIN r /\ r["status"] = "success"

\* the loop of send_bulk_email from recipient i on: the results gathered and
\* the requests issued, until a send_email call raises
RECURSIVE bulk_loop(_, _, _, _, _, _, _, _)
bulk_loop(recipients, subject, message, creds, outcomes, i, results, requests) ==
    IF i > Len(recipients)
    THEN [raised |-> "none", results |-> results, requests |-> requests]
    ELSE LET sent == send_email(recipients[i]["email"], subject, message, "json",
                                creds, outcomes[i])
         IN  IF sent.raised # "none"
             THEN [raised |-> sent.raised, results |-> results, requests |-> requests]
             ELSE bulk_loop(recipients, subject, message, creds, outcomes, i + 1,
                            Append(results, sent.returned[1]),
                            requests \o sent.requests)

send_bulk_email(recipients, subject, message, creds, outcomes) ==
    LET loop == bulk_loop(recipients, subject, message, creds, outcomes, 1, <<>>, <<>>)
    IN  IF loop.raised # "none"
        THEN [raised |-> loop.raised, returned |-> None, requests |-> loop.requests]
        ELSE [raised |-> "none",
              returned |->
                  Some(IF \A i \in 1..Len(loop.results) : IsSuccess(loop.results[i])
                       THEN ("status" :> "success")
                                @@ ("sent_count" :> Len(loop.results))
                       ELSE ("status" :> "partial") @@ ("results" :> loop.results)),
              requests |-> loop.requests]

----------------------------------------------------------------------------
(* AppsNmobileOrchard.  A payload dict is the sequence of its items in     *)
(* insertion order, each item a key with a str or an int value.            *)

BASE_URL == "https://orchard-api.anmgw.com"

StrItem(key, value) == [key |-> key, str |-> value]
IntItem(key, value) == [key |-> key, int |-> value]

\* json.dumps of one item: "key": "value" or "key": value
json_item(item) ==
    "\"" \o item.key \o "\": "
        \o (IF "str" \in DOMAIN item THEN "\"" \o item.str \o "\""
            ELSE ToString(item.int))

RECURSIVE json_items(_)
json_items(items) ==
    IF Len(items) = 0 THEN ""
    ELSE IF Len(items) = 1 THEN json_item(items[1])
    ELSE json_item(items[1]) \o ", " \o json_items(Tail(items))

\* json.dumps(data) for a dict
json_dumps(items) == "{" \o json_items(items) \o "}"

\* hmac.new(key, msg, hashlib.sha256).hexdigest(), kept as the text that
\* names the key and the message
hmac_sha256(key, msg) == "hmac-sha256(" \o key \o ";" \o msg \o ")"

\* _generate_signature with key and message in each other's place
_generate_signature_swapped(secret_key, payload) == hmac_sha256(payload, secret_key)

_generate_signature(secret_key, payload) == hmac_sha256(secret_key, payload)

\* text.lstrip("/")
RECURSIVE lstrip_slash(_)
lstrip_slash(text) ==
    IF Len(text) > 0 /\ CharAt(text, 1) = "/"
    THEN lstrip_slash(SubSeq(text, 2, Len(text)))
    ELSE text

\* AppsNmobileOrchard._make_request that returns failures as error results
AppsNmobileOrchard_make_request_error_result(self, endpoint, method, items, base_url, outcome) ==
    [raised |-> "none", returned |-> Some(_make_request(outcome)), requests |-> <<>>]

AppsNmobileOrchard_make_request(self, endpoint, method, items, base_url, outcome) ==
    LET url_base == IF Truthy(base_url) THEN base_url[1] ELSE BASE_URL
        url == url_base \o "/" \o lstrip_slash(endpoint)
        payload == IF items # None /\ Len(items[1]) > 0
                   THEN json_dumps(items[1]) ELSE "{}"
        signature == _generate_signature(self.secret_key, payload)
        auth_header == self.client_key \o ":" \o signature
        headers == ("Authorization" :> auth_header)
                       @@ ("Content-Type" :> "application/json")
        request == [method |-> method, url |-> url, data |-> payload,
                    headers |-> headers]
    IN  IF outcome.kind # "response"
        THEN [raised |-> outcome.kind, returned |-> None, requests |-> <<request>>]
        ELSE IF outcome.status_code >= 400 /\ outcome.status_code < 600
        THEN [raised |-> "HTTPError", returned |-> None, requests |-> <<request>>]
        ELSE [raised |-> "none",
              returned |-> IF outcome.body # None THEN outcome.body
                           ELSE Some(("raw_response" :> outcome.text)),
              requests |-> <<request>>]

\* str(amount) for a float holding a whole number
str_float(amount) == ToString(amount) \o ".0"

\* the items added for the optional arguments that are given
OptionalItems(names, given) ==
    LET item(i) == IF Truthy(given[i]) THEN <<StrItem(names[i], given[i][1])>>
                   ELSE <<>>
    IN  item(1) \o item(2) \o item(3)

\* the payload process_payment builds from its arguments
payment_payload(args) ==
    <<StrItem("customer_number", args.customer_number),
      StrItem("amount", str_float(args.amount)),
      StrItem("exttrid", args.exttrid),
      StrItem("reference", args.reference),
      StrItem("nw", args.network),
      StrItem("trans_type", args.trans_type),
      StrItem("callback_url", args.callback_url),
      IntItem("service_id", args.service_id),
      StrItem("ts", args.utc_datetime)>>
        \o OptionalItems(<<"bank_code", "recipient_name", "nickname">>,
                         <<args.bank_code, args.recipient_name, args.nickname>>)

\* process_payment without the check of bank transfers
process_payment_unchecked(self, args, outcome) ==
    AppsNmobileOrchard_make_request(self, "sendRequest", "POST",
                                    Some(payment_payload(args)), None, outcome)

\* process_payment; args holds its arguments and the UTC time it reads
process_payment(self, args, outcome) ==
    IF args.trans_type = "MTC" /\ args.network = "BNK" /\ ~Truthy(args.bank_code)
    THEN Raise("ValueError")
    ELSE IF args.trans_type = "MTC" /\ args.network = "BNK"
                /\ ~Truthy(args.recipient_name)
    THEN Raise("ValueError")
    ELSE AppsNmobileOrchard_make_request(self, "sendRequest", "POST",
                                         Some(payment_payload(args)), None, outcome)

----------------------------------------------------------------------------
(* The stateless methods, each applied to one call drawn at the start.     *)

\* all sequences over elems of length at most n
RECURSIVE SeqsUpTo(_, _)
SeqsUpTo(elems, n) ==
    IF n = 0 THEN {<<>>}
    ELSE LET shorter == SeqsUpTo(elems, n - 1)
         IN  shorter \cup {Append(q, e) : q \in shorter, e \in elems}

OptionalOf(vals) == {None} \cup {Some(v) : v \in vals}

MenuCalls ==
    [fn : {"create_ussd_menu"},
     title : {"Main Menu", "Services"},
     options : SeqsUpTo({"Check Balance", "Exit"}, MaxOptions),
     footer : OptionalOf({"", "Reply with option number"})]

ResponseCalls ==
    [fn : {"create_ussd_response"},
     message : {"", "Enter your PIN:"},
     continue_session : BOOLEAN,
     sessionid : OptionalOf({"", "A", "B"})]

\* text repeated n times
RECURSIVE Repeat(_, _)
Repeat(text, n) == IF n = 0 THEN "" ELSE text \o Repeat(text, n - 1)

PhonePrefixes == {"", "0", "+233", "233", "1", "0-", "a0", "23", "(0)", "+"}
PhoneSuffixes == {"", "7", "a", " 0"}

PhoneCalls ==
    [fn : {"validate_phone_number"},
     phone_number : {pre \o Repeat("5", n) \o suf :
                        pre \in PhonePrefixes, n \in 0..MaxPhoneFill,
                        suf \in PhoneSuffixes}]

AmountChars == {"0", "1", ".", "-", "e", "n", "a", " "}
AmountTexts ==
    Strings(AmountChars, MaxAmountLen)
        \cup {"10.00", "100", "0.50", "1000.99", "abc", "-10", "10.001",
              "inf", "Infinity", "NaN", "+1.5", "1_0", "1__0", "1._5"}

AmountCalls == [fn : {"validate_amount"}, amount_str : AmountTexts]

\* what the network does with a request
JsonBodies ==
    { ("status" :> "success") @@ ("message" :> "Accepted"),
      ("status" :> "error") @@ ("message" :> "Rate limit exceeded"),
      ("detail" :> "Internal error") }

Outcomes ==
    [kind : {"Timeout", "ConnectionError"}]
        \cup [kind : {"RequestException", "Exception"}, text : {"boom"}]
        \cup [kind : {"response"},
              status_code : {200, 399, 400, 429, 500},
              reason : {"Reason"},
              text : {"Expecting value"},
              decode_error : {"RequestException", "ValueError"},
              body : OptionalOf(JsonBodies)]

Credentials ==
    [username : OptionalOf({"user"}), password : OptionalOf({"pass"}),
     auth_key : OptionalOf({"key"})]

PaymentCalls ==
    [fn : {"make_payment"},
     amount : OptionalOf({0 - 5, 0, 10}),
     phone_number : {"", "0501234567"},
     reference : {"", "REF1"},
     outcome : Outcomes]

\* messages of 1000 and of 1001 characters
FullMessage == Repeat("0123456789", 100)
LongMessage == FullMessage \o "x"

SmsCalls ==
    [fn : {"send_sms"},
     phone_number : {"", "0501234567"},
     message : {"", "Hello", FullMessage, LongMessage},
     method : {"GET", "POST", "PUT"},
     sender_id : OptionalOf({"SHOP"}),
     creds : Credentials,
     outcome : Outcomes]

EmailCalls ==
    [fn : {"send_email"},
     to_email : {"", "a@b.co", "a@b", "a b@c.d", "a@@b.co"},
     subject : {"", "Hi"},
     message : {"", "Hello"},
     send_format : {"json", "form"},
     creds : Credentials,
     outcome : Outcomes]

HtmlEmailCalls ==
    [fn : {"send_html_email"},
     to_email : {"", "a@b.co", "a@b"},
     subject : {"", "Hi"},
     html_content : {"", "<b>Hello</b>"},
     creds : Credentials,
     outcome : Outcomes]

\* what the network does with each send of a bulk call
BulkOutcomes ==
    { [kind |-> "Timeout"],
      [kind |-> "response", status_code |-> 200, reason |-> "OK",
       text |-> "", decode_error |-> "ValueError",
       body |-> Some(("status" :> "success") @@ ("message" :> "Accepted"))],
      [kind |-> "response", status_code |-> 500, reason |-> "Reason",
       text |-> "", decode_error |-> "ValueError",
       body |-> Some(("detail" :> "Internal error"))] }

BulkEmailCalls ==
    [fn : {"send_bulk_email"},
     recipients : SeqsUpTo({("email" :> "a@b.co"), ("email" :> "c@d.co"),
                            ("email" :> "a@b")}, MaxRecipients),
     subject : {"", "Hi"},
     message : {"Hello"},
     creds : {[username |-> None, password |-> None, auth_key |-> None],
              [username |-> Some("user"), password |-> Some("pass"),
               auth_key |-> None]},
     outcomes : [1..MaxRecipients -> BulkOutcomes]]

OrchardRequestCalls ==
    [fn : {"AppsNmobileOrchard._make_request"},
     client_key : {"ck"},
     secret_key : {"sk"},
     endpoint : {"sendRequest", "/sendSms", "//verifyID"},
     method : {"POST", "GET"},
     items : OptionalOf({<<>>, <<IntItem("service_id", 7)>>,
                         <<StrItem("exttrid", "T1"), IntItem("service_id", 7)>>}),
     base_url : OptionalOf({"", "https://payments.anmgw.com"}),
     outcome : Outcomes]

ProcessPaymentCalls ==
    [fn : {"process_payment"},
     client_key : {"ck"},
     secret_key : {"sk"},
     customer_number : {"0501234567"},
     amount : {10},
     exttrid : {"T1"},
     reference : {"Shop"},
     network : {"MTN", "BNK"},
     trans_type : {"MTC", "CTM"},
     callback_url : {"https://cb"},
     service_id : {7},
     bank_code : OptionalOf({"", "GCB"}),
     recipient_name : OptionalOf({"", "Ama"}),
     nickname : OptionalOf({"", "Nick"}),
     utc_datetime : {"2025-01-01 00:00:00"},
     outcome : Outcomes]

UssdIdle ==
    UNCHANGED <<_ussd_sessions, op, sessionid, data, session, session_data,
                response, raised, existed, written, cleared,
                threads, alone, raced, started>>

CreateUssdMenu ==
    /\ call.fn = "create_ussd_menu"
    /\ result' = Some(create_ussd_menu(call.title, call.options, call.footer))
    /\ UNCHANGED call
    /\ UssdIdle

CreateUssdResponse ==
    /\ call.fn = "create_ussd_response"
    /\ result' = Some(create_ussd_response(call.message, call.continue_session,
                                           call.sessionid))
    /\ UNCHANGED call
    /\ UssdIdle

ValidatePhoneNumber ==
    /\ call.fn = "validate_phone_number"
    /\ result' = Some(validate_phone_number(call.phone_number))
    /\ UNCHANGED call
    /\ UssdIdle

ValidateAmount ==
    /\ call.fn = "validate_amount"
    /\ result' = Some(validate_amount(call.amount_str))
    /\ UNCHANGED call
    /\ UssdIdle

MakePayment ==
    /\ call.fn = "make_payment"
    /\ result' = Some(make_payment(call.amount, call.phone_number,
                                   call.reference, call.outcome))
    /\ UNCHANGED call
    /\ UssdIdle

SendSms ==
    /\ call.fn = "send_sms"
    /\ result' = Some(send_sms(call.phone_number, call.message, call.method,
                               call.sender_id, call.creds, call.outcome))
    /\ UNCHANGED call
    /\ UssdIdle

SendEmail ==
    /\ call.fn = "send_email"
    /\ result' = Some(send_email(call.to_email, call.subject, call.message,
                                 call.send_format, call.creds, call.outcome))
    /\ UNCHANGED call
    /\ UssdIdle

SendHtmlEmail ==
    /\ call.fn = "send_html_email"
    /\ result' = Some(send_html_email(call.to_email, call.subject,
                                      call.html_content, call.creds, call.outcome))
    /\ UNCHANGED call
    /\ UssdIdle

SendBulkEmail ==
    /\ call.fn = "send_bulk_email"
    /\ result' = Some(send_bulk_email(call.recipients, call.subject, call.message,
                                      call.creds, call.outcomes))
    /\ UNCHANGED call
    /\ UssdIdle

OrchardMakeRequest ==
    /\ call.fn = "AppsNmobileOrchard._make_request"
    /\ result' = Some(AppsNmobileOrchard_make_request(
                          call, call.endpoint, call.method, call.items,
                          call.base_url, call.outcome))
    /\ UNCHANGED call
    /\ UssdIdle

ProcessPayment ==
    /\ call.fn = "process_payment"
    /\ result' = Some(process_payment(call, call, call.outcome))
    /\ UNCHANGED call
    /\ UssdIdle

InitCalls ==
    /\ _ussd_sessions = EmptyDict
    /\ op = "__init__"
    /\ sessionid = None
    /\ data = EmptyDict
    /\ session = None
    /\ session_data = EmptyDict
    /\ response = EmptyDict
    /\ raised = "none"
    /\ existed = FALSE
    /\ written = EmptyDict
    /\ cleared = None
    /\ \/ call \in MenuCalls
       \/ call \in ResponseCalls
       \/ call \in PhoneCalls
       \/ call \in AmountCalls
       \/ call \in PaymentCalls
       \/ call \in SmsCalls
       \/ call \in EmailCalls
       \/ call \in HtmlEmailCalls
       \/ call \in BulkEmailCalls
       \/ call \in OrchardRequestCalls
       \/ call \in ProcessPaymentCalls
    /\ result = None
    /\ NoThreads

NextCalls ==
    \/ CreateUssdMenu
    \/ CreateUssdResponse
    \/ ValidatePhoneNumber
    \/ ValidateAmount
    \/ MakePayment
    \/ SendSms
    \/ SendEmail
    \/ SendHtmlEmail
    \/ SendBulkEmail
    \/ OrchardMakeRequest
    \/ ProcessPayment

SpecCalls == InitCalls /\ [][NextCalls]_vars

----------------------------------------------------------------------------
(* Properties of the stateless methods.                                    *)

Returns(name) == call.fn = name /\ result # None

\* the lines of text: the pieces between line-break characters
RECURSIVE SplitLines(_, _)
SplitLines(text, line) ==
    IF Len(text) = 0 THEN <<line>>
    ELSE IF CharAt(text, 1) = "\n"
    THEN <<line>> \o SplitLines(SubSeq(text, 2, Len(text)), "")
    ELSE SplitLines(SubSeq(text, 2, Len(text)), line \o CharAt(text, 1))

NonEmpty(lines) == SelectSeq(lines, LAMBDA l : l # "")

\* C12: create_ussd_menu returns separate lines: the title, then one line
\* "<i>. <option>" per option with i counting from 1, then the footer, only
\* when one is given; the lines are separated by line-break characters.
C12_MenuLines ==
    Returns("create_ussd_menu") =>
        NonEmpty(SplitLines(result[1], "")) =
            NonEmpty(<<call.title>>
                \o [i \in 1..Len(call.options) |->
                        ToString(i) \o ". " \o call.options[i]]
                \o (IF call.footer # None THEN <<call.footer[1]>> ELSE <<>>))

\* C13 as stated: the response has a 'sessionid' field exactly when a
\* sessionid was provided, the empty string included.
C13_SessionidWhenProvided ==
    Returns("create_ussd_response") =>
        /\ result[1]["response"] = (IF call.continue_session THEN "CON" ELSE "END")
        /\ result[1]["message"] = call.message
        /\ ("sessionid" \in DOMAIN result[1]) <=> (call.sessionid # None)
        /\ "sessionid" \in DOMAIN result[1] =>
               result[1]["sessionid"] = call.sessionid[1]

\* C13: create_ussd_response returns 'response' CON exactly when
\* continue_session is true and END otherwise, 'message' as given, and a
\* 'sessionid' field, equal to the argument, exactly when a non-empty
\* sessionid was provided (None and "" both give no field).
C13_Response ==
    Returns("create_ussd_response") =>
        /\ DOMAIN result[1] \subseteq {"response", "message", "sessionid"}
        /\ result[1]["response"] = (IF call.continue_session THEN "CON" ELSE "END")
        /\ result[1]["message"] = call.message
        /\ ("sessionid" \in DOMAIN result[1]) <=>
               (call.sessionid # None /\ call.sessionid[1] # "")
        /\ "sessionid" \in DOMAIN result[1] =>
               result[1]["sessionid"] = call.sessionid[1]

\* an END response built with an empty sessionid
C13_Witness ==
    /\ Returns("create_ussd_response")
    /\ call.sessionid = Some("") /\ ~call.continue_session
    /\ result[1] = ("response" :> "END") @@ ("message" :> "Enter your PIN:")

\* the positions of the digits of text
DigitPositions(text) == {i \in 1..Len(text) : IsDigit(CharAt(text, i))}

\* the k-th digit of text, counting the digits only
NthDigit(text, k) ==
    LET i == CHOOSE p \in DigitPositions(text) :
                 Cardinality({q \in DigitPositions(text) : q <= p}) = k
    IN  CharAt(text, i)

\* C14: validate_phone_number returns true if and only if the digits of the
\* number, every other character removed, are exactly 10 digits starting
\* with "0" or exactly 12 digits starting with "233"; every other input,
\* the empty string included, gives false.
C14_PhoneNumber ==
    Returns("validate_phone_number") =>
        LET number == call.phone_number
            count == Cardinality(DigitPositions(number))
        IN  result[1] =
                \/ count = 10 /\ NthDigit(number, 1) = "0"
                \/ /\ count = 12
                   /\ NthDigit(number, 1) = "2"
                   /\ NthDigit(number, 2) = "3"
                   /\ NthDigit(number, 3) = "3"

\* the international form with its plus sign is accepted
C14_Witness ==
    /\ Returns("validate_phone_number")
    /\ call.phone_number = "+233555555555"
    /\ result[1] = TRUE

\* C15 as stated: validate_amount returns true if and only if the text
\* parses as a decimal number, its value is greater than 0 and, when a
\* decimal point is present, at most 2 characters follow it; every
\* non-numeric text such as "", "abc", "nan" and "inf" gives false, and no
\* call raises.
C15_Amount ==
    Returns("validate_amount") =>
        LET text == call.amount_str
            amount == float(text)
            numeric == amount.raised = "none" /\ amount.kind = "finite"
        IN  /\ result[1] \in BOOLEAN
            /\ result[1] =
                   /\ numeric
                   /\ ~amount.zero /\ ~amount.negative
                   /\ FirstIndex(text, ".") > 0 => Len(DecimalPart(text)) <= 2
            /\ lower(Strip(text)) \in {"", "abc", "nan", "inf"} => result[1] = FALSE

----------------------------------------------------------------------------
(* Properties of the store over whole histories.                           *)

\* C16: in every reachable state the store holds one session per sessionid,
\* each stored session has exactly the two top-level fields step and data,
\* and a sessionid enters the store only by get_ussd_session or
\* handle_ussd_request for that sessionid and is out of it once cleared.
C16_StoreInvariant ==
    /\ [](/\ DOMAIN _ussd_sessions \subseteq SessionIds
          /\ \A s \in DOMAIN _ussd_sessions :
                 DOMAIN _ussd_sessions[s] = {"step", "data"})
    /\ [][\A s \in SessionIds :
              /\ (s \notin DOMAIN _ussd_sessions /\ s \in DOMAIN _ussd_sessions') =>
                     \/ CalledWith("get_ussd_session", s)'
                     \/ Handled' /\ EvSessionid' = s
              /\ CalledWith("clear_ussd_session", s)' =>
                     s \notin DOMAIN _ussd_sessions']_vars

\* A was cleared while B, updated with a step and nested keys, is kept with
\* its two top-level fields
C16_Witness ==
    /\ CalledWith("clear_ussd_session", "A") /\ existed
    /\ DOMAIN _ussd_sessions = {"B"}
    /\ _ussd_sessions["B"].step = 2
    /\ DOMAIN _ussd_sessions["B"].data = {"x", "data"}

----------------------------------------------------------------------------
(* The store operations run by parallel threads, one source line a step.   *)
(* A thread's reference to a session object stays good for the object it   *)
(* was taken from: once another thread removes or replaces that object in  *)
(* the store, writes through the reference no longer reach the store       *)
(* (attached = FALSE).                                                     *)

\* self._ussd_sessions[sessionid] = {"step": 0, "data": {}} storing into an
\* empty dict instead of the shared one
store_new_alone(sessions, sid) == (sid :> NewSession)

\* self._ussd_sessions[sessionid] = {"step": 0, "data": {}}
store_new(sessions, sid) == (sid :> NewSession) @@ sessions

\* del self._ussd_sessions[sessionid]
del_item(sessions, sid) == [s \in DOMAIN sessions \ {sid} |-> sessions[s]]

\* one pass of the loop body of update_ussd_session
set_item(sess, key, value) ==
    IF key = "step"
    THEN [sess EXCEPT !.step = value]
    ELSE [sess EXCEPT !.data = (key :> value) @@ @]

\* the data of the update_ussd_session calls the threads make
ThreadData == {("step" :> 1), ("step" :> 2) @@ ("x" :> "y")}

\* the stores the threads start from
ThreadStores == {st.sessions : st \in DispatchStores}

Working(t) == threads[t].pc \notin {"idle", "done"}
WorkingOn(sid) == {t \in Threads : Working(t) /\ threads[t].sessionid = sid}

\* the line a call starts at
FirstLine(name) ==
    CASE name = "get_ussd_session" -> "get:356"
      [] name = "update_ussd_session" -> "update:362"
      [] name = "clear_ussd_session" -> "clear:374"
      [] name = "handle_ussd_request" -> "handle:268"

\* the store after the call, run with no other call in progress
RunAlone(sessions, name, sid, items) ==
    CASE name = "get_ussd_session" -> get_ussd_session(sessions, sid).sessions
      [] name = "update_ussd_session" -> update_ussd_session(sessions, sid, items)
      [] name = "clear_ussd_session" -> clear_ussd_session(sessions, sid)
      [] name = "handle_ussd_request" ->
             handle_ussd_request(sessions, "sessionid" :> sid).sessions

\* the thread's record after its call returned or raised
Finished(th, exception) ==
    [th EXCEPT !.pc = "done", !.data = EmptyDict, !.keys = {},
               !.attached = FALSE, !.raised = exception]

\* references to the session object of sid go stale
Detach(ths, sid) ==
    [u \in Threads |->
        IF ths[u].sessionid = sid THEN [ths[u] EXCEPT !.attached = FALSE]
        ELSE ths[u]]

\* what the steps of the threads leave alone
ThreadFrame ==
    UNCHANGED <<op, sessionid, data, session, session_data, response, raised,
                existed, written, cleared, call, result>>

\* thread t enters a method
Begin(t, name, sid, items) ==
    /\ ~Working(t)
    /\ started < MaxCalls
    /\ threads' = [threads EXCEPT ![t] =
           [pc |-> FirstLine(name), op |-> name, sessionid |-> sid,
            data |-> items, keys |-> DOMAIN items, attached |-> FALSE,
            raised |-> "none"]]
    /\ alone' = RunAlone(alone, name, sid, items)
    /\ raced' = IF WorkingOn(sid) # {} THEN raced \cup {sid} ELSE raced
    /\ started' = started + 1
    /\ UNCHANGED _ussd_sessions
    /\ ThreadFrame

\* handle_ussd_request, lines 268-283: the event is read and passes the
\* sessionid and msgtype tests
HandleRead(t) ==
    /\ threads[t].pc = "handle:268"
    /\ threads' = [threads EXCEPT ![t].pc = "get:356"]
    /\ UNCHANGED <<_ussd_sessions, alone, raced, started>>
    /\ ThreadFrame

\* get_ussd_session, line 356: if sessionid not in self._ussd_sessions
GetCheck(t) ==
    /\ threads[t].pc = "get:356"
    /\ threads' = [threads EXCEPT ![t].pc =
           IF threads[t].sessionid \notin DOMAIN _ussd_sessions
           THEN "get:357" ELSE "get:358"]
    /\ UNCHANGED <<_ussd_sessions, alone, raced, started>>
    /\ ThreadFrame

\* get_ussd_session, line 357: the new session is stored
GetStore(t) ==
    /\ threads[t].pc = "get:357"
    /\ _ussd_sessions' = store_new(_ussd_sessions, threads[t].sessionid)
    /\ threads' = [Detach(threads, threads[t].sessionid) EXCEPT ![t].pc = "get:358"]
    /\ UNCHANGED <<alone, raced, started>>
    /\ ThreadFrame

\* get_ussd_session, line 358: return self._ussd_sessions[sessionid]
GetReturn(t) ==
    /\ threads[t].pc = "get:358"
    /\ threads' = [threads EXCEPT ![t] =
           IF threads[t].sessionid \notin DOMAIN _ussd_sessions
           THEN Finished(@, "KeyError")
           ELSE IF threads[t].op = "handle_ussd_request"
           THEN [@ EXCEPT !.pc = "handle:289"]
           ELSE Finished(@, "none")]
    /\ UNCHANGED <<_ussd_sessions, alone, raced, started>>
    /\ ThreadFrame

\* handle_ussd_request, lines 289-326: the response is built and returned
HandleRespond(t) ==
    /\ threads[t].pc = "handle:289"
    /\ threads' = [threads EXCEPT ![t] = Finished(@, "none")]
    /\ UNCHANGED <<_ussd_sessions, alone, raced, started>>
    /\ ThreadFrame

\* update_ussd_session, line 362: if sessionid in self._ussd_sessions
UpdateCheck(t) ==
    /\ threads[t].pc = "update:362"
    /\ threads' = [threads EXCEPT ![t] =
           IF threads[t].sessionid \in DOMAIN _ussd_sessions
           THEN [@ EXCEPT !.pc = "update:363"]
           ELSE Finished(@, "none")]
    /\ UNCHANGED <<_ussd_sessions, alone, raced, started>>
    /\ ThreadFrame

\* update_ussd_session, line 363: session = self._ussd_sessions[sessionid]
UpdateLookup(t) ==
    /\ threads[t].pc = "update:363"
    /\ threads' = [threads EXCEPT ![t] =
           IF threads[t].sessionid \notin DOMAIN _ussd_sessions
           THEN Finished(@, "KeyError")
           ELSE [@ EXCEPT !.pc = "update:364", !.attached = TRUE]]
    /\ UNCHANGED <<_ussd_sessions, alone, raced, started>>
    /\ ThreadFrame

\* update_ussd_session, lines 364-370: one item of data is written through
\* the reference
UpdateItem(t) ==
    /\ threads[t].pc = "update:364"
    /\ LET sid == threads[t].sessionid
           key == CHOOSE k \in threads[t].keys : TRUE
           rest == threads[t].keys \ {key}
       IN  /\ _ussd_sessions' =
                  IF threads[t].attached
                  THEN [_ussd_sessions EXCEPT ![sid] =
                           set_item(@, key, threads[t].data[key])]
                  ELSE _ussd_sessions
           /\ threads' = [threads EXCEPT ![t] =
                  IF rest = {} THEN Finished(@, "none")
                  ELSE [@ EXCEPT !.keys = rest]]
    /\ UNCHANGED <<alone, raced, started>>
    /\ ThreadFrame

\* clear_ussd_session, line 374: if sessionid in self._ussd_sessions
ClearCheck(t) ==
    /\ threads[t].pc = "clear:374"
    /\ threads' = [threads EXCEPT ![t] =
           IF threads[t].sessionid \in DOMAIN _ussd_sessions
           THEN [@ EXCEPT !.pc = "clear:375"]
           ELSE Finished(@, "none")]
    /\ UNCHANGED <<_ussd_sessions, alone, raced, started>>
    /\ ThreadFrame

\* clear_ussd_session, line 375: del self._ussd_sessions[sessionid]
ClearDel(t) ==
    /\ threads[t].pc = "clear:375"
    /\ LET sid == threads[t].sessionid
       IN  IF sid \in DOMAIN _ussd_sessions
           THEN /\ _ussd_sessions' = del_item(_ussd_sessions, sid)
                /\ threads' = [Detach(threads, sid) EXCEPT ![t] = Finished(@, "none")]
           ELSE /\ UNCHANGED _ussd_sessions
                /\ threads' = [threads EXCEPT ![t] = Finished(@, "KeyError")]
    /\ UNCHANGED <<alone, raced, started>>
    /\ ThreadFrame

InitThreads ==
    /\ _ussd_sessions \in ThreadStores
    /\ op = "__init__"
    /\ sessionid = None
    /\ data = EmptyDict
    /\ session = None
    /\ session_data = EmptyDict
    /\ response = EmptyDict
    /\ raised = "none"
    /\ existed = FALSE
    /\ written = EmptyDict
    /\ cleared = None
    /\ call = NoCall
    /\ result = None
    /\ threads = [t \in Threads |-> Idle]
    /\ alone = _ussd_sessions
    /\ raced = {}
    /\ started = 0

NextThreads ==
    \E t \in Threads :
        \/ \E sid \in SessionIds : Begin(t, "get_ussd_session", sid, EmptyDict)
        \/ \E sid \in SessionIds, items \in ThreadData :
               Begin(t, "update_ussd_session", sid, items)
        \/ \E sid \in SessionIds : Begin(t, "clear_ussd_session", sid, EmptyDict)
        \/ \E sid \in SessionIds : Begin(t, "handle_ussd_request", sid, EmptyDict)
        \/ HandleRead(t)
        \/ GetCheck(t)
        \/ GetStore(t)
        \/ GetReturn(t)
        \/ HandleRespond(t)
        \/ UpdateCheck(t)
        \/ UpdateLookup(t)
        \/ UpdateItem(t)
        \/ ClearCheck(t)
        \/ ClearDel(t)

SpecThreads == InitThreads /\ [][NextThreads]_vars

\* the entry of sid in a store, as Optional
Entry(sessions, sid) ==
    IF sid \in DOMAIN sessions THEN Some(sessions[sid]) ELSE None

\* C17: when calls for different sessionids interleave line by line, no step
\* of a call on one sessionid creates, changes or removes the entry of
\* another sessionid, and a sessionid on which no two calls overlapped is,
\* whenever no call on it is in progress, in the state its own calls give
\* when run alone, none of them having raised.
C17_DifferentSessions ==
    /\ [](\A s \in SessionIds :
              (s \notin raced /\ WorkingOn(s) = {}) =>
                  /\ Entry(_ussd_sessions, s) = Entry(alone, s)
                  /\ \A t \in Threads :
                         threads[t].sessionid = s => threads[t].raised = "none")
    /\ [][\A t \in Threads :
              threads'[t] # threads[t] =>
                  \A b \in SessionIds \ {threads'[t].sessionid} :
                      Entry(_ussd_sessions', b) = Entry(_ussd_sessions, b)]_vars

\* t1 has written both items of its update of A while t2, in
\* clear_ussd_session for B, is between its membership test and its del
C17_Witness ==
    /\ threads["t1"].pc = "done" /\ threads["t1"].op = "update_ussd_session"
    /\ threads["t1"].sessionid = "A"
    /\ threads["t2"].pc = "clear:375" /\ threads["t2"].sessionid = "B"
    /\ raced = {}
    /\ started = 2
    /\ _ussd_sessions = ("A" :> [step |-> 2, data |-> ("x" :> "y")]) @@ ("B" :> NewSession)

----------------------------------------------------------------------------
(* The dispatcher against the store.                                       *)

\* C18: the response of handle_ussd_request is a function of the event
\* alone: whatever earlier requests, updates and clears made of the store,
\* the response is the one the same event gets from the empty store.
C18_ResponseOfEventAlone ==
    Handled =>
        /\ response = handle_ussd_request(EmptyDict, session_data).response
        /\ raised = handle_ussd_request(EmptyDict, session_data).raised

\* a selection sent for a session that updates moved to step 2 and gave
\* data: END with the balance, as for a session never seen
C18_Witness ==
    /\ Handled /\ existed
    /\ EvSessionid = "A" /\ EvMsg = "1"
    /\ _ussd_sessions["A"] = [step |-> 2, data |-> ("x" :> "y") @@ ("data" :> "v")]
    /\ RespCode("END")
    /\ RespMessage("Your balance is GHS 100.00")

\* C20: after handle_ussd_request returns for an event with a non-empty
\* sessionid and msgtype true, a session for that sessionid is in the
\* store, and a session leaves the store by no call other than
\* clear_ussd_session for its sessionid: later requests, also those answered
\* END, keep it.
C20_SessionStays ==
    /\ []((Handled /\ EvSessionid # "" /\ EvMsgtype = TRUE) =>
              EvSessionid \in DOMAIN _ussd_sessions)
    /\ [][\A s \in SessionIds :
              (s \in DOMAIN _ussd_sessions /\ s \notin DOMAIN _ussd_sessions') =>
                  CalledWith("clear_ussd_session", s)']_vars

\* a second request for A, answered END, with A still in the store
C20_Witness ==
    /\ Handled /\ existed
    /\ EvSessionid = "A" /\ EvMsgtype = TRUE
    /\ RespCode("END")
    /\ "A" \in DOMAIN _ussd_sessions
    /\ _ussd_sessions["A"] = NewSession

----------------------------------------------------------------------------
(* Properties of the HTTP services.                                        *)

\* the call passes the parameter and credential checks of its method
ValidCall ==
    \/ /\ call.fn = "make_payment"
       /\ call.amount # None /\ call.amount[1] > 0
       /\ call.phone_number # "" /\ call.reference # ""
    \/ /\ call.fn = "send_sms"
       /\ call.phone_number # "" /\ call.message # ""
       /\ call.method \in {"GET", "POST"}
       /\ Authenticated(call.creds)
    \/ /\ call.fn = "send_email"
       /\ call.to_email = "a@b.co" /\ call.subject # "" /\ call.message # ""
       /\ Authenticated(call.creds)

\* the network did not answer with a JSON body and a status below 400
TransportFailure ==
    \/ call.outcome.kind # "response"
    \/ call.outcome.status_code >= 400
    \/ call.outcome.body = None

\* C19: make_payment, send_sms and send_email, called with valid parameters
\* and credentials, return every transport outcome (timeout, connection
\* error, other request exception, HTTP status >= 400 with or without a JSON
\* body, a non-JSON success body) as a dictionary with status "error" and a
\* message and raise nothing; a timeout gives a message containing
\* "timeout", a connection error one containing "connection".
C19_TransportErrors ==
    (result # None /\ ValidCall /\ TransportFailure) =>
        /\ result[1].raised = "none"
        /\ result[1].returned # None
        /\ {"status", "message"} \subseteq DOMAIN result[1].returned[1]
        /\ result[1].returned[1]["status"] = "error"
        /\ call.outcome.kind = "Timeout" =>
               Contains(result[1].returned[1]["message"], "timeout")
        /\ call.outcome.kind = "ConnectionError" =>
               Contains(result[1].returned[1]["message"], "connection")

\* no usable credentials: no auth key, and user name or password missing
NoCredentials(creds) ==
    creds.auth_key = None /\ (creds.username = None \/ creds.password = None)

\* an address that is not <local>@<domain> with one "@", no space, a
\* non-empty local part and a domain holding a dot
Malformed(email) ==
    \/ Count(email, "@") # 1
    \/ Count(email, " ") > 0
    \/ LET at == FirstIndex(email, "@")
       IN  \/ at = 1
           \/ at = Len(email)
           \/ Count(SubSeq(email, at + 1, Len(email)), ".") = 0

\* a required parameter is missing or invalid, or credentials are missing
InvalidCall ==
    \/ /\ call.fn = "make_payment"
       /\ \/ call.amount = None
          \/ call.amount[1] <= 0
          \/ call.phone_number = ""
          \/ call.reference = ""
    \/ /\ call.fn = "send_sms"
       /\ \/ call.phone_number = ""
          \/ call.message = ""
          \/ call.method \notin {"GET", "POST"}
          \/ Len(call.message) > 1000
          \/ NoCredentials(call.creds)
    \/ /\ call.fn = "send_email"
       /\ \/ call.to_email = ""
          \/ call.subject = ""
          \/ call.message = ""
          \/ Malformed(call.to_email)
          \/ NoCredentials(call.creds)

\* C21: make_payment, send_sms and send_email validate before sending: with
\* a required parameter missing or invalid, or no credentials configured
\* for SMS or email, the call raises ValueError and issues no HTTP request.
C21_ValidateBeforeSending ==
    (result # None /\ InvalidCall) =>
        /\ result[1].raised = "ValueError"
        /\ result[1].returned = None
        /\ result[1].requests = <<>>

\* an SMS of 1001 characters with only a user name configured
C21_Witness ==
    /\ Returns("send_sms")
    /\ call.message = LongMessage /\ call.phone_number # ""
    /\ call.creds = [username |-> Some("user"), password |-> None, auth_key |-> None]
    /\ result[1].raised = "ValueError"
    /\ result[1].requests = <<>>

\* the key under which a service sends the user name
UserKey == IF call.fn = "send_sms" THEN "userid" ELSE "username"

\* C22: every SMS and email request carries exactly one form of
\* authentication: with an auth key configured it carries authkey and
\* neither user name nor password; otherwise it carries the configured user
\* name and password and no authkey.
C22_OneAuthentication ==
    (result # None /\ call.fn \in {"send_sms", "send_email", "send_html_email"}) =>
        \A i \in 1..Len(result[1].requests) :
            LET sent == result[1].requests[i].body
            IN  IF call.creds.auth_key # None
                THEN /\ "authkey" \in DOMAIN sent
                     /\ sent["authkey"] = call.creds.auth_key
                     /\ DOMAIN sent \cap {"userid", "username", "password"} = {}
                ELSE /\ {UserKey, "password"} \subseteq DOMAIN sent
                     /\ sent[UserKey] = call.creds.username
                     /\ sent["password"] = call.creds.password
                     /\ "authkey" \notin DOMAIN sent

\* an SMS sent with auth key, user name and password all configured
C22_Witness ==
    /\ Returns("send_sms")
    /\ call.creds = [username |-> Some("user"), password |-> Some("pass"),
                     auth_key |-> Some("key")]
    /\ Len(result[1].requests) = 1
    /\ "authkey" \in DOMAIN result[1].requests[1].body
    /\ "userid" \notin DOMAIN result[1].requests[1].body

\* C23: send_bulk_email issues exactly one send per recipient, in list
\* order, for every recipient list, and returns {status: "success",
\* sent_count: number of recipients} if every send returned status
\* "success", otherwise {status: "partial"} with the result of every
\* recipient.
C23_BulkEmail ==
    Returns("send_bulk_email") =>
        LET out == result[1]
            n == Len(call.recipients)
        IN  /\ out.raised = "none"
            /\ Len(out.requests) = n
            /\ \A i \in 1..n : out.requests[i].body["to"] = call.recipients[i]["email"]
            /\ out.returned # None
            /\ IF \A i \in 1..n : call.outcomes[i].kind = "response"
                                     /\ call.outcomes[i].status_code = 200
               THEN out.returned[1] = ("status" :> "success") @@ ("sent_count" :> n)
               ELSE /\ out.returned[1]["status"] = "partial"
                    /\ Len(out.returned[1]["results"]) = n

\* C30: send_html_email performs none of the checks of send_email: for
\* every recipient, subject and content and every credential configuration
\* it raises nothing and issues exactly one POST with content_type "html",
\* carrying authkey if an auth key is configured and otherwise the
\* (possibly unset) user name and password.
C30_HtmlEmailUnchecked ==
    Returns("send_html_email") =>
        /\ result[1].raised = "none"
        /\ result[1].returned = Some(_make_request(call.outcome))
        /\ Len(result[1].requests) = 1
        /\ LET request == result[1].requests[1]
               expected == ("to" :> call.to_email) @@ ("subject" :> call.subject)
                               @@ ("message" :> call.html_content)
                               @@ ("content_type" :> "html")
           IN  /\ request.method = "POST"
               /\ request.url = "https://api.nalosolutions.com/sendemail/"
               /\ \A k \in DOMAIN expected :
                      k \in DOMAIN request.body /\ request.body[k] = expected[k]
               /\ DOMAIN request.body \ DOMAIN expected =
                      IF call.creds.auth_key # None THEN {"authkey"}
                      ELSE {"username", "password"}
               /\ call.creds.auth_key # None =>
                      request.body["authkey"] = call.creds.auth_key
               /\ call.creds.auth_key = None =>
                      /\ request.body["username"] = call.creds.username
                      /\ request.body["password"] = call.creds.password

\* an HTML email with no recipient, no subject, no content and no
\* credentials is posted with unset user name and password
C30_Witness ==
    /\ Returns("send_html_email")
    /\ call.to_email = "" /\ call.subject = "" /\ call.html_content = ""
    /\ call.creds = [username |-> None, password |-> None, auth_key |-> None]
    /\ Len(result[1].requests) = 1
    /\ result[1].requests[1].body["username"] = None
    /\ result[1].requests[1].body["content_type"] = "html"

----------------------------------------------------------------------------
(* What the dispatcher does to the store.                                  *)

\* C24: handle_ussd_request never changes or removes an existing store
\* entry: every session in the store before the call, the one of the
\* event's sessionid included, has the same step and data after it; the
\* only possible change is the addition of {step: 0, data: {}} for the
\* event's sessionid; an event with empty sessionid or msgtype false leaves
\* the store unchanged.
C24_HandleFrame ==
    [][Handled' =>
          /\ \A s \in DOMAIN _ussd_sessions :
                 /\ s \in DOMAIN _ussd_sessions'
                 /\ _ussd_sessions'[s] = _ussd_sessions[s]
          /\ \A s \in DOMAIN _ussd_sessions' \ DOMAIN _ussd_sessions :
                 s = EvSessionid' /\ _ussd_sessions'[s] = NewSession
          /\ (EvSessionid' = "" \/ EvMsgtype' = FALSE) =>
                 _ussd_sessions' = _ussd_sessions]_vars

\* the gateway ended session A, which updates had moved to step 1: the
\* session is still stored as it was
C24_Witness ==
    /\ Handled /\ existed
    /\ EvSessionid = "A" /\ EvMsgtype = FALSE
    /\ RespMessage("Session has ended. Thank you!")
    /\ "A" \in DOMAIN _ussd_sessions
    /\ _ussd_sessions["A"].step = 1
    /\ LastWritten("A", "step", 0) = 1

----------------------------------------------------------------------------
(* Calls for one sessionid in parallel threads.                            *)

\* C25: when calls for the same sessionid interleave between a call's
\* membership test and its following store access, no call raises an error:
\* get_ussd_session returns a session, update_ussd_session and
\* clear_ussd_session complete silently.
C25_NoCallRaises ==
    \A t \in Threads : threads[t].pc = "done" => threads[t].raised = "none"

\* C26: get_ussd_session never replaces a stored session: the step and data
\* of a session in the store change only through a step of
\* update_ussd_session or clear_ussd_session for its sessionid, also when
\* get_ussd_session calls of parallel threads interleave with an update.
C26_GetNeverReplaces ==
    [][\A s \in DOMAIN _ussd_sessions :
           Entry(_ussd_sessions', s) # Entry(_ussd_sessions, s) =>
               \E t \in Threads :
                   /\ threads'[t] # threads[t]
                   /\ threads[t].sessionid = s
                   /\ threads[t].op \in {"update_ussd_session",
                                         "clear_ussd_session"}]_vars

----------------------------------------------------------------------------
(* Properties of AppsNmobileOrchard.                                       *)

\* C27: AppsNmobileOrchard._make_request signs exactly what it sends: the
\* Authorization header of every request is "<client_key>:<signature>", the
\* signature being the HMAC of the secret key over the payload string sent
\* as the request body, which is the JSON encoding of data, or "{}" when no
\* data is given.
C27_SignsWhatItSends ==
    Returns("AppsNmobileOrchard._make_request") =>
        /\ Len(result[1].requests) = 1
        /\ LET request == result[1].requests[1]
           IN  /\ request.headers["Authorization"] =
                      call.client_key \o ":"
                          \o hmac_sha256(call.secret_key, request.data)
               /\ request.data =
                      IF call.items = None \/ call.items[1] = <<>> THEN "{}"
                      ELSE json_dumps(call.items[1])

\* a request made with two items of data
C27_Witness ==
    /\ Returns("AppsNmobileOrchard._make_request")
    /\ call.items # None /\ Len(call.items[1]) = 2
    /\ result[1].requests[1].data = "{\"exttrid\": \"T1\", \"service_id\": 7}"
    /\ result[1].requests[1].headers["Authorization"] =
           "ck:hmac-sha256(sk;{\"exttrid\": \"T1\", \"service_id\": 7})"

\* the argument is None or empty
Missing(optional) == optional = None \/ optional[1] = ""

\* C28: process_payment with trans_type "MTC" and network "BNK" raises
\* ValueError and issues no request when bank_code or recipient_name is
\* missing or empty; for every other combination of trans_type and network
\* it issues the request whether or not they are given; each optional field
\* is in the payload only when it is given.
C28_BankTransferCheck ==
    Returns("process_payment") =>
        IF call.trans_type = "MTC" /\ call.network = "BNK"
               /\ (Missing(call.bank_code) \/ Missing(call.recipient_name))
        THEN /\ result[1].raised = "ValueError"
             /\ result[1].requests = <<>>
        ELSE /\ result[1].raised # "ValueError"
             /\ Len(result[1].requests) = 1
             /\ LET sent == result[1].requests[1].data
                    carries(name, given) ==
                        /\ Contains(sent, "\"" \o name \o "\": ") <=> ~Missing(given)
                        /\ ~Missing(given) =>
                               Contains(sent, "\"" \o name \o "\": \""
                                                  \o given[1] \o "\"")
                IN  /\ carries("bank_code", call.bank_code)
                    /\ carries("recipient_name", call.recipient_name)
                    /\ carries("nickname", call.nickname)

\* a bank transfer with a bank code and an empty recipient name
C28_Witness ==
    /\ Returns("process_payment")
    /\ call.trans_type = "MTC" /\ call.network = "BNK"
    /\ call.bank_code = Some("GCB") /\ call.recipient_name = Some("")
    /\ result[1].raised = "ValueError"
    /\ result[1].requests = <<>>

\* C29: AppsNmobileOrchard._make_request never returns an error-shaped
\* result for a failed request: an HTTP error status or a transport failure
\* is raised to the caller, and a successful response is returned as its
\* parsed JSON, or as {"raw_response": <body text>} when the body is not
\* JSON.
C29_FailuresAreRaised ==
    Returns("AppsNmobileOrchard._make_request") =>
        IF call.outcome.kind # "response"
        THEN result[1].raised = call.outcome.kind /\ result[1].returned = None
        ELSE IF call.outcome.status_code >= 400
        THEN result[1].raised = "HTTPError" /\ result[1].returned = None
        ELSE /\ result[1].raised = "none"
             /\ result[1].returned =
                    IF call.outcome.body # None THEN call.outcome.body
                    ELSE Some(("raw_response" :> call.outcome.text))

\* a status 500 answered with a JSON error body is raised, not returned
C29_Witness ==
    /\ Returns("AppsNmobileOrchard._make_request")
    /\ call.outcome.kind = "response" /\ call.outcome.status_code = 500
    /\ call.outcome.body = Some(("status" :> "error") @@ ("message" :> "Rate limit exceeded"))
    /\ result[1].raised = "HTTPError"
    /\ result[1].returned = None

====
